---------------------------- MODULE Spec2Model ----------------------------
(***************************************************************************)
(* A model of snapper (src/snapper.go): a command that makes a timestamped *)
(* rsync snapshot of a directory and republishes the "Latest" symlink.     *)
(*                                                                         *)
(* One invocation of the command is one run.  The state is the snapshots   *)
(* directory on disk (its existence, its snapshot directories, the entry   *)
(* named Latest), the wall clock, and the local variables and program      *)
(* position of each run.  Every system call of main() is one action, and   *)
(* each of them may fail the ways the code distinguishes.                  *)
(*                                                                         *)
(* A string is a sequence of tokens; a token is a path separator, a name   *)
(* or the literal part of a format string.  Concatenation is \o.           *)
(***************************************************************************)
EXTENDS Integers, Sequences, FiniteSets, TLC

(***************************************************************************)
(* Bounds of the model.                                                    *)
(***************************************************************************)
MaxRuns == 2          \* invocations of the command
MaxTime == 4          \* clock ticks the wall clock advances
MaxExcludes == 2      \* -exclude flags on one command line
MaxRootLen == 2       \* tokens of a positional argument

\* Clock ticks per second: the timestamp has second resolution, the clock
\* is finer, so two instants may format to the same identifier.
TicksPerSecond == 2

(***************************************************************************)
(* Constants of snapper.go.                                                *)
(***************************************************************************)
rsyncArchiveFlags == <<"-aPh">>
rsyncDisableSpecials == <<"--no-specials">>
rsyncDisableDevices == <<"--no-devices">>
rsyncBaseFlagFormat == "--link-dest="
rsyncExcludeFlagFormat == "--exclude="
latestSnapshotLinkName == <<"Latest">>
Separator == "/"

Runs == 1..MaxRuns

\* The diagnostics main prints before os.Exit(1), each with the step of the
\* run that prints it.
ErrArgumentCount == "invalid number of positional arguments"
ErrEmptyRoot == "empty root path"
ErrEmptySnapshots == "empty snapshots directory path"
ErrCreateSnapshots == "unable to create snapshots directory"
ErrNotSymlink == "latest backup link path exists but is not a symlink"
ErrInspect == "unable to inspect latest backup link path"
ErrCreateSnapshot == "unable to create snapshot root"
ErrRsync == "rsync execution error"
ErrRemove == "unable to remove latest backup link"
ErrSymlink == "unable to update latest backup link"

StepOfError ==
    [m \in {ErrArgumentCount, ErrEmptyRoot, ErrEmptySnapshots,
            ErrCreateSnapshots} |-> "Resolving"]
    @@ [m \in {ErrNotSymlink, ErrInspect} |-> "Inspecting"]
    @@ [m \in {ErrCreateSnapshot} |-> "Allocating"]
    @@ [m \in {ErrRsync} |-> "Transferring"]
    @@ [m \in {ErrRemove, ErrSymlink} |-> "Publishing"]

(***************************************************************************)
(* Library functions the program calls, as far as the inputs of the model  *)
(* exercise them.                                                          *)
(***************************************************************************)

\* fmt.Sprintf(format, s) for a format "<literal>%s".
Sprintf(format, s) == <<format>> \o s

\* filepath.Clean on paths of names and separators: runs of separators
\* collapse to one and a trailing separator is dropped, except for the
\* root path "/".
RECURSIVE Collapse(_)
Collapse(path) ==
    IF Len(path) < 2 THEN path
    ELSE IF path[1] = Separator /\ path[2] = Separator
         THEN Collapse(Tail(path))
         ELSE <<path[1]>> \o Collapse(Tail(path))

Clean(path) ==
    LET c == Collapse(path)
    IN  IF Len(c) > 1 /\ c[Len(c)] = Separator
        THEN SubSeq(c, 1, Len(c) - 1)
        ELSE c

\* filepath.Join(a, b) for non-empty a and b.
Join(a, b) == Clean(a \o <<Separator>> \o b)

\* The last element of a path: the name of the entry that a system call on
\* the path acts on.
Base(path) == <<path[Len(path)]>>

\* time.Now().UTC().Format("20060102T150405Z"): the second the instant falls
\* in, rendered as a name.
Format(instant) == <<"T" \o ToString(instant \div TicksPerSecond)>>

(***************************************************************************)
(* The command lines the runs are invoked with: the result of              *)
(* flags.Parse, the -exclude values and the positional arguments.          *)
(***************************************************************************)
SeqsUpTo(S, n) == UNION {[1..k -> S] : k \in 0..n}

RootStrings == SeqsUpTo({"d", Separator}, MaxRootLen)
SnapshotsStrings == {<<>>, <<"s">>, <<"s", Separator>>, <<Separator, "s">>}
ExcludeStrings == {<<"a">>, <<"b", Separator, "c">>}
ExcludeLists == SeqsUpTo(ExcludeStrings, MaxExcludes)

CommandLines ==
    [excludes : ExcludeLists,
     arguments : {<<r, s>> : r \in RootStrings, s \in SnapshotsStrings}
                 \cup {<<r>> : r \in RootStrings}]

\* The command lines of the runs that follow or overlap one another: a
\* usual invocation, and the invalid ones.
UsualCommandLines ==
    [excludes : {<<>>},
     arguments : {<<<<"d">>, <<"s">>>>, <<<<"d">>>>, <<<<>>, <<"s">>>>,
                  <<<<"d">>, <<>>>>}]

NoLatest == [kind |-> "absent", target |-> <<>>]
LinkTo(name) == [kind |-> "symlink", target |-> name]

VARIABLES
    rootExists,         \* the snapshots directory exists
    dirs,               \* names of the snapshot directories in it
    latest,             \* the entry named Latest: its kind and link target
    now,                \* the wall clock, in ticks
    pc,                 \* the position of each run
    commandLine,        \* the parsed command line of each run
    root,               \* main's root
    rsyncArguments,     \* main's rsyncArguments
    timestamp,          \* main's timestamp
    removed,            \* os.Remove of the publish step has returned
    syscalls,           \* history: the calls each run has made, in order
    stderr,             \* history: the diagnostic a run exited with
    latestBefore,       \* history: Latest when the run was invoked
    dirsBefore,         \* history: the snapshot directories at that time
    completed,          \* history: snapshots whose rsync succeeded, in order
    failed,             \* history: snapshots whose rsync failed
    initial             \* history: the snapshots directory at the start

fsVars == <<rootExists, dirs, latest>>
runVars == <<pc, commandLine, root, rsyncArguments, timestamp, removed>>
histVars == <<syscalls, stderr, latestBefore, dirsBefore, completed, failed,
              initial>>
vars == <<rootExists, dirs, latest, now, pc, commandLine, root,
          rsyncArguments, timestamp, removed, syscalls, stderr,
          latestBefore, dirsBefore, completed, failed, initial>>

(***************************************************************************)
(* The snapshots directory before the first run: missing, empty, holding   *)
(* one snapshot of an earlier run (complete and published, or failed and   *)
(* unpublished), holding a Latest that is a regular file or a directory,   *)
(* or holding a Latest whose target has been pruned.                       *)
(***************************************************************************)
InitialDisks ==
    { [exists |-> FALSE, dirs |-> {}, latest |-> NoLatest,
       completed |-> <<>>, failed |-> {}],
      [exists |-> TRUE, dirs |-> {}, latest |-> NoLatest,
       completed |-> <<>>, failed |-> {}],
      [exists |-> TRUE, dirs |-> {Format(0)}, latest |-> LinkTo(Format(0)),
       completed |-> <<Format(0)>>, failed |-> {}],
      [exists |-> TRUE, dirs |-> {Format(0)}, latest |-> NoLatest,
       completed |-> <<>>, failed |-> {Format(0)}],
      [exists |-> TRUE, dirs |-> {}, latest |-> [kind |-> "file", target |-> <<>>],
       completed |-> <<>>, failed |-> {}],
      [exists |-> TRUE, dirs |-> {}, latest |-> [kind |-> "dir", target |-> <<>>],
       completed |-> <<>>, failed |-> {}],
      [exists |-> TRUE, dirs |-> {}, latest |-> LinkTo(Format(0)),
       completed |-> <<>>, failed |-> {}] }

Init ==
    /\ \E d \in InitialDisks :
          /\ rootExists = d.exists
          /\ dirs = d.dirs
          /\ latest = d.latest
          /\ completed = d.completed
          /\ failed = d.failed
          /\ initial = d
    /\ now = 0
    /\ pc = [p \in Runs |-> "Idle"]
    /\ commandLine = [p \in Runs |-> [excludes |-> <<>>, arguments |-> <<>>]]
    /\ root = [p \in Runs |-> <<>>]
    /\ rsyncArguments = [p \in Runs |-> <<>>]
    /\ timestamp = [p \in Runs |-> <<>>]
    /\ removed = [p \in Runs |-> FALSE]
    /\ syscalls = [p \in Runs |-> <<>>]
    /\ stderr = [p \in Runs |-> ""]
    /\ latestBefore = [p \in Runs |-> NoLatest]
    /\ dirsBefore = [p \in Runs |-> {}]

\* main's snapshotsDirectory and lastestSnapshotLink, once the arguments
\* have been validated.
snapshotsDirectory(p) == commandLine[p].arguments[2]
\* A variant that names the link without the snapshots directory.
lastestSnapshotLink_bare(p) == latestSnapshotLinkName

lastestSnapshotLink(p) == Join(snapshotsDirectory(p), latestSnapshotLinkName)
snapshot(p) == Join(snapshotsDirectory(p), timestamp[p])

Called(p, call) == syscalls' = [syscalls EXCEPT ![p] = Append(@, call)]

\* fmt.Fprintln(os.Stderr, "error:", message) and os.Exit(1).
Exit1(p, message) ==
    /\ stderr' = [stderr EXCEPT ![p] = message]
    /\ pc' = [pc EXCEPT ![p] = "Aborted"]

Terminated(p) == pc[p] \in {"Done", "Aborted"}

(***************************************************************************)
(* The command is invoked: the run exists from now on.                     *)
(***************************************************************************)
Invoke(p, lines) ==
    /\ pc[p] = "Idle"
    /\ \A q \in Runs : q < p => pc[q] # "Idle"
    /\ \E c \in lines : commandLine' = [commandLine EXCEPT ![p] = c]
    /\ pc' = [pc EXCEPT ![p] = "Resolving"]
    /\ latestBefore' = [latestBefore EXCEPT ![p] = latest]
    /\ dirsBefore' = [dirsBefore EXCEPT ![p] = dirs]
    /\ UNCHANGED <<fsVars, now, root, rsyncArguments, timestamp, removed,
                   syscalls, stderr, completed, failed, initial>>

(***************************************************************************)
(* Lines 75-95: the positional arguments are validated and the snapshots   *)
(* directory is created if it is missing.                                  *)
(***************************************************************************)
Resolve(p) ==
    /\ pc[p] = "Resolving"
    /\ LET arguments == commandLine[p].arguments
       IN  IF Len(arguments) # 2
           THEN /\ Exit1(p, ErrArgumentCount)
                /\ UNCHANGED <<fsVars, root, syscalls>>
           ELSE IF arguments[1] = <<>>
           THEN /\ Exit1(p, ErrEmptyRoot)
                /\ UNCHANGED <<fsVars, root, syscalls>>
           ELSE IF arguments[2] = <<>>
           THEN /\ Exit1(p, ErrEmptySnapshots)
                /\ UNCHANGED <<fsVars, root, syscalls>>
           ELSE /\ Called(p, "MkdirAll")
                /\ \/ /\ rootExists' = TRUE
                      /\ root' = [root EXCEPT ![p] = arguments[1]]
                      /\ pc' = [pc EXCEPT ![p] = "Inspecting"]
                      /\ UNCHANGED <<dirs, latest, stderr>>
                   \/ /\ Exit1(p, ErrCreateSnapshots)
                      /\ UNCHANGED <<fsVars, root>>
    /\ UNCHANGED <<now, commandLine, rsyncArguments, timestamp, removed,
                   latestBefore, dirsBefore, completed, failed, initial>>

(***************************************************************************)
(* Lines 97-114: the base arguments, then os.Lstat of the Latest path.  A  *)
(* symlink becomes the hardlink base; its target is not read.              *)
(***************************************************************************)
BaseArguments == <<rsyncArchiveFlags, rsyncDisableSpecials, rsyncDisableDevices>>

\* A variant that passes the base flag whether or not Latest exists.
Inspect_alwaysBase(p) ==
    /\ pc[p] = "Inspecting"
    /\ Called(p, "Lstat")
    /\ \/ /\ latest.kind \in {"symlink", "absent"}
          /\ rsyncArguments' = [rsyncArguments EXCEPT ![p] =
                Append(BaseArguments,
                       Sprintf(rsyncBaseFlagFormat, lastestSnapshotLink(p)))]
          /\ pc' = [pc EXCEPT ![p] = "Building"]
          /\ UNCHANGED stderr
       \/ /\ latest.kind \in {"file", "dir"}
          /\ Exit1(p, ErrNotSymlink)
          /\ UNCHANGED rsyncArguments
       \/ /\ Exit1(p, ErrInspect)
          /\ UNCHANGED rsyncArguments
    /\ UNCHANGED <<fsVars, now, commandLine, root, timestamp, removed,
                   latestBefore, dirsBefore, completed, failed, initial>>

\* A variant that reads the link and passes the path of its target.
Inspect_readlink(p) ==
    /\ pc[p] = "Inspecting"
    /\ Called(p, "Lstat")
    /\ \/ /\ latest.kind = "symlink"
          /\ rsyncArguments' = [rsyncArguments EXCEPT ![p] =
                Append(BaseArguments,
                       Sprintf(rsyncBaseFlagFormat,
                               Join(snapshotsDirectory(p), latest.target)))]
          /\ pc' = [pc EXCEPT ![p] = "Building"]
          /\ UNCHANGED stderr
       \/ /\ latest.kind \in {"file", "dir"}
          /\ Exit1(p, ErrNotSymlink)
          /\ UNCHANGED rsyncArguments
       \/ /\ latest.kind = "absent"
          /\ rsyncArguments' = [rsyncArguments EXCEPT ![p] = BaseArguments]
          /\ pc' = [pc EXCEPT ![p] = "Building"]
          /\ UNCHANGED stderr
       \/ /\ Exit1(p, ErrInspect)
          /\ UNCHANGED rsyncArguments
    /\ UNCHANGED <<fsVars, now, commandLine, root, timestamp, removed,
                   latestBefore, dirsBefore, completed, failed, initial>>

\* A variant without the check of the mode: whatever exists is the base.
Inspect_anyEntry(p) ==
    /\ pc[p] = "Inspecting"
    /\ Called(p, "Lstat")
    /\ \/ /\ latest.kind # "absent"
          /\ rsyncArguments' = [rsyncArguments EXCEPT ![p] =
                Append(BaseArguments,
                       Sprintf(rsyncBaseFlagFormat, lastestSnapshotLink(p)))]
          /\ pc' = [pc EXCEPT ![p] = "Building"]
          /\ UNCHANGED stderr
       \/ /\ latest.kind = "absent"
          /\ rsyncArguments' = [rsyncArguments EXCEPT ![p] = BaseArguments]
          /\ pc' = [pc EXCEPT ![p] = "Building"]
          /\ UNCHANGED stderr
       \/ /\ Exit1(p, ErrInspect)
          /\ UNCHANGED rsyncArguments
    /\ UNCHANGED <<fsVars, now, commandLine, root, timestamp, removed,
                   latestBefore, dirsBefore, completed, failed, initial>>

Inspect(p) ==
    /\ pc[p] = "Inspecting"
    /\ Called(p, "Lstat")
    /\ \/ /\ latest.kind = "symlink"
          /\ rsyncArguments' = [rsyncArguments EXCEPT ![p] =
                Append(BaseArguments,
                       Sprintf(rsyncBaseFlagFormat, lastestSnapshotLink(p)))]
          /\ pc' = [pc EXCEPT ![p] = "Building"]
          /\ UNCHANGED stderr
       \/ /\ latest.kind \in {"file", "dir"}
          /\ Exit1(p, ErrNotSymlink)
          /\ UNCHANGED rsyncArguments
       \/ /\ latest.kind = "absent"
          /\ rsyncArguments' = [rsyncArguments EXCEPT ![p] = BaseArguments]
          /\ pc' = [pc EXCEPT ![p] = "Building"]
          /\ UNCHANGED stderr
       \/ /\ Exit1(p, ErrInspect)      \* Lstat fails with another error
          /\ UNCHANGED rsyncArguments
    /\ UNCHANGED <<fsVars, now, commandLine, root, timestamp, removed,
                   latestBefore, dirsBefore, completed, failed, initial>>

(***************************************************************************)
(* Lines 116-129: one exclude flag per excluded path, then the root with   *)
(* a trailing separator.                                                   *)
(***************************************************************************)
\* A variant that puts each new flag in front of the earlier ones.
ExcludeFlags_reversed(excludes) ==
    [i \in 1..Len(excludes) |->
        Sprintf(rsyncExcludeFlagFormat, excludes[Len(excludes) + 1 - i])]

ExcludeFlags(excludes) ==
    [i \in 1..Len(excludes) |-> Sprintf(rsyncExcludeFlagFormat, excludes[i])]

\* A variant that appends the separator without looking at the root.
WithTrailingSlash_always(r) == r \o <<Separator>>

WithTrailingSlash(r) ==
    IF r[Len(r)] # Separator THEN r \o <<Separator>> ELSE r

\* A variant that appends the root before the exclude flags.
Build_rootFirst(p) ==
    /\ pc[p] = "Building"
    /\ root' = [root EXCEPT ![p] = WithTrailingSlash(root[p])]
    /\ rsyncArguments' = [rsyncArguments EXCEPT ![p] =
          Append(@, WithTrailingSlash(root[p]))
              \o ExcludeFlags(commandLine[p].excludes)]
    /\ pc' = [pc EXCEPT ![p] = "Allocating"]
    /\ UNCHANGED <<fsVars, now, commandLine, timestamp, removed, histVars>>

Build(p) ==
    /\ pc[p] = "Building"
    /\ root' = [root EXCEPT ![p] = WithTrailingSlash(root[p])]
    /\ rsyncArguments' = [rsyncArguments EXCEPT ![p] =
          Append(@ \o ExcludeFlags(commandLine[p].excludes),
                 WithTrailingSlash(root[p]))]
    /\ pc' = [pc EXCEPT ![p] = "Allocating"]
    /\ UNCHANGED <<fsVars, now, commandLine, timestamp, removed, histVars>>

(***************************************************************************)
(* Lines 131-141: the timestamp of the current instant names the snapshot; *)
(* os.Mkdir creates it, and fails if the name exists.  Reading the clock   *)
(* and formatting it touch nothing that another run can see, so they are   *)
(* one step with the os.Mkdir that follows.                                *)
(***************************************************************************)
\* A variant that reports a failed os.Mkdir and goes on to the transfer.
Allocate_noExit(p) ==
    /\ pc[p] = "Allocating"
    /\ timestamp' = [timestamp EXCEPT ![p] = Format(now)]
    /\ Called(p, "Mkdir")
    /\ LET path == Join(snapshotsDirectory(p), Format(now))
       IN  /\ rsyncArguments' = [rsyncArguments EXCEPT ![p] = Append(@, path)]
           /\ pc' = [pc EXCEPT ![p] = "Transferring"]
           /\ \/ /\ Base(path) \notin dirs
                 /\ dirs' = dirs \cup {Base(path)}
                 /\ UNCHANGED stderr
              \/ /\ stderr' = [stderr EXCEPT ![p] = ErrCreateSnapshot]
                 /\ UNCHANGED dirs
    /\ UNCHANGED <<rootExists, latest, now, commandLine, root, removed,
                   latestBefore, dirsBefore, completed, failed, initial>>

\* A variant that creates the directory as os.MkdirAll does: a directory
\* that exists is no error.
Allocate_reuse(p) ==
    /\ pc[p] = "Allocating"
    /\ timestamp' = [timestamp EXCEPT ![p] = Format(now)]
    /\ Called(p, "Mkdir")
    /\ LET path == Join(snapshotsDirectory(p), Format(now))
       IN  \/ /\ dirs' = dirs \cup {Base(path)}
              /\ rsyncArguments' = [rsyncArguments EXCEPT ![p] =
                    Append(@, path)]
              /\ pc' = [pc EXCEPT ![p] = "Transferring"]
              /\ UNCHANGED stderr
           \/ /\ Exit1(p, ErrCreateSnapshot)
              /\ UNCHANGED <<dirs, rsyncArguments>>
    /\ UNCHANGED <<rootExists, latest, now, commandLine, root, removed,
                   latestBefore, dirsBefore, completed, failed, initial>>

Allocate(p) ==
    /\ pc[p] = "Allocating"
    /\ timestamp' = [timestamp EXCEPT ![p] = Format(now)]
    /\ Called(p, "Mkdir")
    /\ LET path == Join(snapshotsDirectory(p), Format(now))
       IN  \/ /\ Base(path) \notin dirs
              /\ dirs' = dirs \cup {Base(path)}
              /\ rsyncArguments' = [rsyncArguments EXCEPT ![p] =
                    Append(@, path)]
              /\ pc' = [pc EXCEPT ![p] = "Transferring"]
              /\ UNCHANGED stderr
           \/ /\ Base(path) \in dirs      \* the name exists
              /\ Exit1(p, ErrCreateSnapshot)
              /\ UNCHANGED <<dirs, rsyncArguments>>
           \/ /\ Exit1(p, ErrCreateSnapshot)      \* another error
              /\ UNCHANGED <<dirs, rsyncArguments>>
    /\ UNCHANGED <<rootExists, latest, now, commandLine, root, removed,
                   latestBefore, dirsBefore, completed, failed, initial>>

(***************************************************************************)
(* Lines 143-151: rsync runs with the arguments and exits.                 *)
(***************************************************************************)

\* A variant that starts rsync and does not wait for it to exit.
Transfer_start(p) ==
    /\ pc[p] = "Transferring"
    /\ Called(p, "rsync")
    /\ \/ /\ pc' = [pc EXCEPT ![p] = "Publishing"]
          /\ UNCHANGED <<completed, failed, stderr>>
       \/ /\ failed' = failed \cup {timestamp[p]}
          /\ Exit1(p, ErrRsync)
          /\ UNCHANGED completed
    /\ UNCHANGED <<fsVars, now, commandLine, root, rsyncArguments, timestamp,
                   removed, latestBefore, dirsBefore, initial>>

\* A variant that removes the snapshot directory of a failed transfer.
Transfer_cleanup(p) ==
    /\ pc[p] = "Transferring"
    /\ Called(p, "rsync")
    /\ \/ /\ completed' = Append(completed, timestamp[p])
          /\ pc' = [pc EXCEPT ![p] = "Publishing"]
          /\ UNCHANGED <<failed, stderr, dirs>>
       \/ /\ failed' = failed \cup {timestamp[p]}
          /\ dirs' = dirs \ {timestamp[p]}
          /\ Exit1(p, ErrRsync)
          /\ UNCHANGED completed
    /\ UNCHANGED <<rootExists, latest, now, commandLine, root, rsyncArguments,
                   timestamp, removed, latestBefore, dirsBefore, initial>>

\* A variant that reports a failed transfer and publishes all the same.
Transfer_publish(p) ==
    /\ pc[p] = "Transferring"
    /\ Called(p, "rsync")
    /\ \/ /\ completed' = Append(completed, timestamp[p])
          /\ UNCHANGED failed
       \/ /\ failed' = failed \cup {timestamp[p]}
          /\ UNCHANGED completed
    /\ pc' = [pc EXCEPT ![p] = "Publishing"]
    /\ UNCHANGED <<fsVars, now, commandLine, root, rsyncArguments, timestamp,
                   removed, latestBefore, dirsBefore, initial, stderr>>

Transfer(p) ==
    /\ pc[p] = "Transferring"
    /\ Called(p, "rsync")
    /\ \/ /\ completed' = Append(completed, timestamp[p])
          /\ pc' = [pc EXCEPT ![p] = "Publishing"]
          /\ UNCHANGED <<failed, stderr>>
       \/ /\ failed' = failed \cup {timestamp[p]}
          /\ Exit1(p, ErrRsync)
          /\ UNCHANGED completed
    /\ UNCHANGED <<fsVars, now, commandLine, root, rsyncArguments, timestamp,
                   removed, latestBefore, dirsBefore, initial>>

(***************************************************************************)
(* Lines 153-156: os.Remove of the Latest path; a missing entry is not an  *)
(* error.                                                                  *)
(***************************************************************************)
\* A variant that prunes: with the old link goes the snapshot it names.
PublishRemove_prune(p) ==
    /\ pc[p] = "Publishing"
    /\ ~removed[p]
    /\ Called(p, "Remove")
    /\ \/ /\ latest.kind # "absent"
          /\ latest' = NoLatest
          /\ dirs' = dirs \ {latest.target}
          /\ removed' = [removed EXCEPT ![p] = TRUE]
          /\ UNCHANGED <<pc, stderr>>
       \/ /\ latest.kind = "absent"
          /\ removed' = [removed EXCEPT ![p] = TRUE]
          /\ UNCHANGED <<latest, dirs, pc, stderr>>
       \/ /\ Exit1(p, ErrRemove)
          /\ UNCHANGED <<latest, dirs, removed>>
    /\ UNCHANGED <<rootExists, now, commandLine, root, rsyncArguments,
                   timestamp, latestBefore, dirsBefore, completed, failed,
                   initial>>

\* A variant without the os.IsNotExist test: a missing entry is an error.
PublishRemove_strict(p) ==
    /\ pc[p] = "Publishing"
    /\ ~removed[p]
    /\ Called(p, "Remove")
    /\ \/ /\ latest.kind # "absent"
          /\ latest' = NoLatest
          /\ removed' = [removed EXCEPT ![p] = TRUE]
          /\ UNCHANGED <<pc, stderr>>
       \/ /\ Exit1(p, ErrRemove)
          /\ UNCHANGED <<latest, removed>>
    /\ UNCHANGED <<rootExists, dirs, now, commandLine, root, rsyncArguments,
                   timestamp, latestBefore, dirsBefore, completed, failed,
                   initial>>

\* A variant that takes every error of the removal for a missing entry.
PublishRemove_ignoreError(p) ==
    /\ pc[p] = "Publishing"
    /\ ~removed[p]
    /\ Called(p, "Remove")
    /\ removed' = [removed EXCEPT ![p] = TRUE]
    /\ \/ /\ latest.kind # "absent"
          /\ latest' = NoLatest
       \/ UNCHANGED latest
    /\ UNCHANGED <<rootExists, dirs, now, pc, commandLine, root,
                   rsyncArguments, timestamp, latestBefore, dirsBefore,
                   completed, failed, initial, stderr>>

\* A variant that reports a failed removal and goes on to create the link.
PublishRemove_noExit(p) ==
    /\ pc[p] = "Publishing"
    /\ ~removed[p]
    /\ Called(p, "Remove")
    /\ removed' = [removed EXCEPT ![p] = TRUE]
    /\ \/ /\ latest.kind # "absent"
          /\ latest' = NoLatest
          /\ UNCHANGED stderr
       \/ /\ latest.kind = "absent"
          /\ UNCHANGED <<latest, stderr>>
       \/ /\ stderr' = [stderr EXCEPT ![p] = ErrRemove]
          /\ UNCHANGED latest
    /\ UNCHANGED <<rootExists, dirs, now, pc, commandLine, root,
                   rsyncArguments, timestamp, latestBefore, dirsBefore,
                   completed, failed, initial>>

PublishRemove(p) ==
    /\ pc[p] = "Publishing"
    /\ ~removed[p]
    /\ Called(p, "Remove")
    /\ \/ /\ latest.kind # "absent"
          /\ latest' = NoLatest
          /\ removed' = [removed EXCEPT ![p] = TRUE]
          /\ UNCHANGED <<pc, stderr>>
       \/ /\ latest.kind = "absent"      \* os.IsNotExist(err)
          /\ removed' = [removed EXCEPT ![p] = TRUE]
          /\ UNCHANGED <<latest, pc, stderr>>
       \/ /\ Exit1(p, ErrRemove)      \* Remove fails with another error
          /\ UNCHANGED <<latest, removed>>
    /\ UNCHANGED <<rootExists, dirs, now, commandLine, root, rsyncArguments,
                   timestamp, latestBefore, dirsBefore, completed, failed,
                   initial>>

(***************************************************************************)
(* Lines 157-160: os.Symlink(timestamp, Latest path); it fails if the      *)
(* entry exists.                                                           *)
(***************************************************************************)
\* A variant that links to the path of the snapshot, not to its name.
SymlinkTarget_path(p) == snapshot(p)

SymlinkTarget(p) == timestamp[p]

\* A variant that puts the old link back when the new one cannot be made.
PublishLink_restore(p) ==
    /\ pc[p] = "Publishing"
    /\ removed[p]
    /\ Called(p, "Symlink")
    /\ \/ /\ latest.kind = "absent"
          /\ latest' = LinkTo(SymlinkTarget(p))
          /\ pc' = [pc EXCEPT ![p] = "Done"]
          /\ UNCHANGED stderr
       \/ /\ Exit1(p, ErrSymlink)
          /\ latest' = IF latest.kind = "absent" THEN latestBefore[p]
                                                 ELSE latest
    /\ UNCHANGED <<rootExists, dirs, now, commandLine, root, rsyncArguments,
                   timestamp, removed, latestBefore, dirsBefore, completed,
                   failed, initial>>

\* A variant that replaces an entry that exists, as "ln -sf" does.
PublishLink_force(p) ==
    /\ pc[p] = "Publishing"
    /\ removed[p]
    /\ Called(p, "Symlink")
    /\ \/ /\ latest' = LinkTo(SymlinkTarget(p))
          /\ pc' = [pc EXCEPT ![p] = "Done"]
          /\ UNCHANGED stderr
       \/ /\ Exit1(p, ErrSymlink)
          /\ UNCHANGED latest
    /\ UNCHANGED <<rootExists, dirs, now, commandLine, root, rsyncArguments,
                   timestamp, removed, latestBefore, dirsBefore, completed,
                   failed, initial>>

PublishLink(p) ==
    /\ pc[p] = "Publishing"
    /\ removed[p]
    /\ Called(p, "Symlink")
    /\ \/ /\ latest.kind = "absent"
          /\ latest' = LinkTo(SymlinkTarget(p))
          /\ pc' = [pc EXCEPT ![p] = "Done"]
          /\ UNCHANGED stderr
       \/ /\ Exit1(p, ErrSymlink)      \* the entry exists, or another error
          /\ UNCHANGED latest
    /\ UNCHANGED <<rootExists, dirs, now, commandLine, root, rsyncArguments,
                   timestamp, removed, latestBefore, dirsBefore, completed,
                   failed, initial>>

(***************************************************************************)
(* The wall clock advances.                                                *)
(***************************************************************************)
Tick ==
    /\ now < MaxTime
    /\ now' = now + 1
    /\ UNCHANGED <<fsVars, runVars, histVars>>

Step(p) ==
    \/ Resolve(p)
    \/ Inspect(p)
    \/ Build(p)
    \/ Allocate(p)
    \/ Transfer(p)
    \/ PublishRemove(p)
    \/ PublishLink(p)

(***************************************************************************)
(* Runs one at a time, as the design assumes: the command is invoked only  *)
(* when every earlier run has exited.                                      *)
(***************************************************************************)
InvokeAlone(p) ==
    /\ \A q \in Runs : pc[q] = "Idle" \/ Terminated(q)
    /\ Invoke(p, UsualCommandLines)

Next ==
    \/ \E p \in Runs : InvokeAlone(p)
    \/ \E p \in Runs : Step(p)
    \/ Tick

Spec == Init /\ [][Next]_vars

\* Every call of a run returns and the run goes on: the process is
\* scheduled, and rsync exits.
FairSpec == Spec /\ \A p \in Runs : WF_vars(Step(p))

(***************************************************************************)
(* Runs that overlap: the command is invoked while earlier runs are still  *)
(* at work on the same snapshots directory.                                *)
(***************************************************************************)
InvokeAnyTime(p) == Invoke(p, UsualCommandLines)

NextConcurrent ==
    \/ \E p \in Runs : InvokeAnyTime(p)
    \/ \E p \in Runs : Step(p)
    \/ Tick

ConcurrentSpec == Init /\ [][NextConcurrent]_vars

(***************************************************************************)
(* A single run on any command line.                                       *)
(***************************************************************************)
InvokeOnce == Invoke(1, CommandLines)

NextSingle ==
    \/ InvokeOnce
    \/ \E p \in Runs : Step(p)
    \/ Tick

SingleSpec == Init /\ [][NextSingle]_vars

(***************************************************************************)
(* What the history variables say about a run.                             *)
(***************************************************************************)
Range(f) == {f[i] : i \in DOMAIN f}

Last(sequence) == sequence[Len(sequence)]

Made(p, call) == call \in Range(syscalls[p])

\* The step a run aborted in.
AbortedAt(p) == IF stderr[p] = "" THEN "none" ELSE StepOfError[stderr[p]]

\* No later run has begun to publish: Latest is as run p left it.
LatestUntouchedSince(p) == \A q \in Runs : q > p => ~Made(q, "Remove")

\* The snapshots directory started in a state the program leaves behind:
\* no Latest, or a Latest that links to a complete snapshot.
InitialValid ==
    \/ initial.latest.kind = "absent"
    \/ /\ initial.latest.kind = "symlink"
       /\ initial.latest.target \in initial.dirs
       /\ initial.latest.target \in Range(initial.completed)

(***************************************************************************)
(* C1: when the rsync of a run fails, the run is over, the snapshot        *)
(* directory it created is still there, and Latest is what it was when the *)
(* run began (the same link, or still absent), for as long as no later run *)
(* publishes.                                                              *)
(***************************************************************************)
C1_FailedTransferLeavesLatest ==
    \A p \in Runs :
        (Made(p, "rsync") /\ timestamp[p] \in failed) =>
            /\ pc[p] = "Aborted"
            /\ stderr[p] = ErrRsync
            /\ timestamp[p] \in dirs
            /\ LatestUntouchedSince(p) => latest = latestBefore[p]

C1_Witness ==
    \E p \in Runs :
        /\ stderr[p] = ErrRsync
        /\ latestBefore[p].kind = "symlink"
        /\ latestBefore[p].target \in dirsBefore[p]
        /\ latest = latestBefore[p]
        /\ timestamp[p] \in dirs \ dirsBefore[p]

(***************************************************************************)
(* C2: when the snapshots directory starts with no Latest or with a Latest *)
(* that links to a complete snapshot, and the runs follow one another,     *)
(* then in every state Latest is absent or is a symlink whose target is an *)
(* existing snapshot directory whose transfer succeeded: never one whose   *)
(* transfer failed or is still going on.                                   *)
(***************************************************************************)
C2_LatestReferencesCompleteSnapshot ==
    (InitialValid /\ latest.kind # "absent") =>
        /\ latest.kind = "symlink"
        /\ latest.target \in dirs
        /\ latest.target \in Range(completed)
        /\ latest.target \notin failed
        /\ \A p \in Runs :
              pc[p] = "Transferring" => timestamp[p] # latest.target

C2_Witness ==
    /\ InitialValid
    /\ \E p, q \in Runs :
          /\ stderr[p] = ErrRsync
          /\ pc[q] = "Done"
          /\ latest = LinkTo(timestamp[q])
          /\ timestamp[p] \in dirs

(***************************************************************************)
(* C3: a run that finds a Latest that is a regular file or a directory     *)
(* exits on the not-a-symlink diagnostic (unless an earlier step or the    *)
(* Lstat itself failed); it never creates a snapshot directory nor runs    *)
(* rsync, and it leaves the contents of the snapshots directory as they    *)
(* were.                                                                   *)
(***************************************************************************)
C3_NotSymlinkAborts ==
    \A p \in Runs :
        latestBefore[p].kind \in {"file", "dir"} =>
            /\ pc[p] \in {"Resolving", "Inspecting", "Aborted"}
            /\ pc[p] = "Aborted" =>
                  \/ AbortedAt(p) = "Resolving"
                  \/ stderr[p] \in {ErrNotSymlink, ErrInspect}
            /\ ~Made(p, "Mkdir") /\ ~Made(p, "rsync")
            /\ ~Made(p, "Remove") /\ ~Made(p, "Symlink")
            /\ dirs = dirsBefore[p]
            /\ latest = latestBefore[p]

C3_Witness ==
    \E p \in Runs :
        /\ latestBefore[p].kind = "file"
        /\ stderr[p] = ErrNotSymlink
        /\ syscalls[p] = <<"MkdirAll", "Lstat">>

(***************************************************************************)
(* C4: a run goes through Resolving, Inspecting, Building, Allocating,     *)
(* Transferring, Publishing and Done in that order, or from any of the     *)
(* steps straight to Aborted when the step fails; the calls it has made    *)
(* are exactly those of the steps it went through, so an aborted run makes *)
(* none of the later calls, and the disk changes only in the step that     *)
(* owns the change; a run that has begun takes a step as long as it is in  *)
(* neither Done nor Aborted, takes none once it is, and does reach one of  *)
(* the two.                                                                *)
(***************************************************************************)
StepsInOrder == <<"Idle", "Resolving", "Inspecting", "Building", "Allocating",
                  "Transferring", "Publishing", "Done">>

StepSuccessors ==
    {<<StepsInOrder[i], StepsInOrder[i + 1]>> : i \in 1..(Len(StepsInOrder) - 1)}
    \cup {<<StepsInOrder[i], "Aborted">> : i \in 2..(Len(StepsInOrder) - 1)}

CallsInOrder == <<"MkdirAll", "Lstat", "Mkdir", "rsync", "Remove", "Symlink">>

\* The number of calls a run in this position has made.
CallsMade(p) ==
    CASE pc[p] \in {"Idle", "Resolving"} -> 0
      [] pc[p] = "Inspecting" -> 1
      [] pc[p] \in {"Building", "Allocating"} -> 2
      [] pc[p] = "Transferring" -> 3
      [] pc[p] = "Publishing" -> IF removed[p] THEN 5 ELSE 4
      [] pc[p] = "Done" -> 6
      [] pc[p] = "Aborted" ->
            CASE stderr[p] \in {ErrArgumentCount, ErrEmptyRoot,
                                ErrEmptySnapshots} -> 0
              [] stderr[p] = ErrCreateSnapshots -> 1
              [] stderr[p] \in {ErrNotSymlink, ErrInspect} -> 2
              [] stderr[p] = ErrCreateSnapshot -> 3
              [] stderr[p] = ErrRsync -> 4
              [] stderr[p] = ErrRemove -> 5
              [] stderr[p] = ErrSymlink -> 6
              [] OTHER -> -1

C4_StepOrder ==
    \A p \in Runs :
        /\ pc'[p] # pc[p] => <<pc[p], pc'[p]>> \in StepSuccessors
        /\ Terminated(p) =>
              /\ syscalls'[p] = syscalls[p]
              /\ stderr'[p] = stderr[p]

C4_DiskChangesInStep ==
    /\ dirs' # dirs =>
          \E p \in Runs : pc[p] = "Allocating" /\ pc'[p] = "Transferring"
    /\ latest' # latest => \E p \in Runs : pc[p] = "Publishing"
    /\ rootExists' # rootExists =>
          \E p \in Runs : pc[p] = "Resolving" /\ pc'[p] = "Inspecting"

C4_CallsMatchPosition ==
    \A p \in Runs :
        /\ syscalls[p] = SubSeq(CallsInOrder, 1, CallsMade(p))
        /\ stderr[p] # "" <=> pc[p] = "Aborted"

C4_OnlyTerminalStatesStop ==
    \A p \in Runs :
        /\ Terminated(p) => ~ENABLED Step(p)
        /\ pc[p] \notin {"Idle", "Done", "Aborted"} => ENABLED Step(p)

C4_RunStateMachine ==
    /\ [][C4_StepOrder /\ C4_DiskChangesInStep]_vars
    /\ [](C4_CallsMatchPosition /\ C4_OnlyTerminalStatesStop)
    /\ \A p \in Runs : (pc[p] # "Idle") ~> Terminated(p)

C4_Witness ==
    \E p, q \in Runs :
        /\ pc[p] = "Done"
        /\ syscalls[p] = CallsInOrder
        /\ pc[q] = "Aborted"
        /\ stderr[q] = ErrCreateSnapshot
        /\ syscalls[q] = <<"MkdirAll", "Lstat", "Mkdir">>

(***************************************************************************)
(* The arguments rsync is given, and the disk entry a path names.          *)
(***************************************************************************)
ValidCommandLine(p) ==
    /\ Len(commandLine[p].arguments) = 2
    /\ commandLine[p].arguments[1] # <<>>
    /\ commandLine[p].arguments[2] # <<>>

IsBaseFlag(argument) ==
    argument # <<>> /\ argument[1] = rsyncBaseFlagFormat

BaseFlags(p) ==
    {i \in DOMAIN rsyncArguments[p] : IsBaseFlag(rsyncArguments[p][i])}

\* The snapshot directory that a path names for run p, following Latest;
\* <<>> when the path names none.
Referent(p, path) ==
    IF /\ Len(path) >= 3
       /\ path[Len(path) - 1] = Separator
       /\ Clean(SubSeq(path, 1, Len(path) - 2)) = Clean(snapshotsDirectory(p))
    THEN IF Base(path) = latestSnapshotLinkName
         THEN IF latest.kind = "symlink" /\ latest.target \in dirs
              THEN latest.target
              ELSE <<>>
         ELSE IF Base(path) \in dirs THEN Base(path) ELSE <<>>
    ELSE <<>>

\* Every run is yet to be invoked or has exited.
Quiescent == \A p \in Runs : pc[p] = "Idle" \/ Terminated(p)

(***************************************************************************)
(* C5: a run on a valid command line that began with no Latest never has a *)
(* hardlink-base flag among its arguments and creates at most one snapshot *)
(* directory; when it is Done it has created exactly one, named by its     *)
(* timestamp, and Latest is a link to that name.                           *)
(***************************************************************************)
C5_FirstSnapshot ==
    \A p \in Runs :
        (pc[p] # "Idle" /\ ValidCommandLine(p)
            /\ latestBefore[p].kind = "absent") =>
            /\ BaseFlags(p) = {}
            /\ dirsBefore[p] \subseteq dirs
            /\ Cardinality(dirs \ dirsBefore[p]) <= 1
            /\ pc[p] = "Done" =>
                  /\ dirs \ dirsBefore[p] = {timestamp[p]}
                  /\ latest = LinkTo(timestamp[p])

C5_Witness ==
    \E p \in Runs :
        /\ pc[p] = "Done"
        /\ latestBefore[p].kind = "absent"
        /\ commandLine[p].excludes # <<>>
        /\ dirsBefore[p] # {}
        /\ latest = LinkTo(timestamp[p])

(***************************************************************************)
(* C6: of two runs that follow one another and are both Done, the          *)
(* snapshot directories have different names and both exist, and Latest    *)
(* is a link to the name of the second's, until a later run publishes.     *)
(***************************************************************************)
C6_TwoSuccessfulRuns ==
    \A p, q \in Runs :
        (p < q /\ pc[p] = "Done" /\ pc[q] = "Done") =>
            /\ timestamp[p] # timestamp[q]
            /\ {timestamp[p], timestamp[q]} \subseteq dirs
            /\ Last(rsyncArguments[p]) # Last(rsyncArguments[q])
            /\ LatestUntouchedSince(q) => latest = LinkTo(timestamp[q])

C6_Witness ==
    \E p, q \in Runs :
        /\ p < q /\ pc[p] = "Done" /\ pc[q] = "Done"
        /\ latestBefore[q] = LinkTo(timestamp[p])
        /\ latest = LinkTo(timestamp[q])

(***************************************************************************)
(* C7: of the overlapping runs that compute the same timestamp at most one *)
(* creates the snapshot directory; a run whose os.Mkdir fails is Aborted   *)
(* having made neither the rsync call nor the removal or the creation of   *)
(* Latest; so no two runs transfer into the same snapshot directory, and   *)
(* none into a directory that was there before.                            *)
(***************************************************************************)
Allocated(p) == Made(p, "Mkdir") /\ stderr[p] # ErrCreateSnapshot

C7_ExclusiveAllocation ==
    /\ \A p, q \in Runs :
          (p # q /\ Allocated(p) /\ Allocated(q)) =>
              /\ timestamp[p] # timestamp[q]
              /\ Base(Last(rsyncArguments[p])) # Base(Last(rsyncArguments[q]))
    /\ \A p \in Runs :
          /\ Allocated(p) => timestamp[p] \notin initial.dirs
          /\ (pc[p] = "Transferring" \/ Made(p, "rsync")) => Allocated(p)
          /\ stderr[p] = ErrCreateSnapshot =>
                /\ pc[p] = "Aborted"
                /\ syscalls[p] = <<"MkdirAll", "Lstat", "Mkdir">>

C7_Witness ==
    \E p, q \in Runs :
        /\ p # q
        /\ timestamp[p] = timestamp[q]
        /\ pc[p] = "Transferring"
        /\ stderr[q] = ErrCreateSnapshot
        /\ dirs = {timestamp[p]}

(***************************************************************************)
(* C8, as stated: once the runs that follow one another have all exited,   *)
(* a Latest that is present links to the snapshot whose transfer was the   *)
(* last to succeed.                                                        *)
(***************************************************************************)
C8_LatestIsLastCompleted ==
    (InitialValid /\ Quiescent /\ latest.kind # "absent") =>
        /\ completed # <<>>
        /\ latest.target = completed[Len(completed)]

(***************************************************************************)
(* C8, amended: once the runs that follow one another have all exited, a   *)
(* Latest that is present links to a snapshot whose transfer succeeded,    *)
(* and every snapshot whose transfer succeeded after that one belongs to a *)
(* run that exited because it could not remove the old Latest.             *)
(***************************************************************************)
C8_LatestIsLastPublished ==
    (InitialValid /\ Quiescent /\ latest.kind # "absent") =>
        \E i \in DOMAIN completed :
            /\ completed[i] = latest.target
            /\ \A j \in DOMAIN completed :
                  j > i => \E q \in Runs : /\ timestamp[q] = completed[j]
                                           /\ stderr[q] = ErrRemove

C8_Witness ==
    /\ InitialValid
    /\ Quiescent
    /\ \E p, q \in Runs :
          /\ pc[p] = "Done"
          /\ latest = LinkTo(timestamp[p])
          /\ stderr[q] = ErrRemove
          /\ completed[Len(completed)] = timestamp[q]

(***************************************************************************)
(* C9: while a run that began with a Latest linking to an existing         *)
(* snapshot S builds its arguments, allocates and transfers, its arguments *)
(* hold exactly one hardlink-base flag, and the path in it names S.        *)
(***************************************************************************)
C9_BaseFlagNamesSnapshot ==
    \A p \in Runs :
        (/\ pc[p] \in {"Building", "Allocating", "Transferring"}
         /\ latestBefore[p].kind = "symlink"
         /\ latestBefore[p].target \in dirsBefore[p]) =>
            /\ Cardinality(BaseFlags(p)) = 1
            /\ \A i \in BaseFlags(p) :
                  Referent(p, Tail(rsyncArguments[p][i]))
                      = latestBefore[p].target

C9_Witness ==
    \E p \in Runs :
        /\ pc[p] = "Transferring"
        /\ latestBefore[p].kind = "symlink"
        /\ latestBefore[p].target \in dirsBefore[p]
        /\ commandLine[p].arguments[2] = <<"s", Separator>>
        /\ Referent(p, Tail(rsyncArguments[p][4])) = latestBefore[p].target

(***************************************************************************)
(* C10: for a run that found Latest to be a symlink, whatever its target   *)
(* and whether or not the target exists, the hardlink base is the path of  *)
(* the link itself, the snapshots directory joined with "Latest"; the      *)
(* target is not part of it, and the run goes on to allocate and transfer. *)
(***************************************************************************)
InspectedLink(p) ==
    /\ latestBefore[p].kind = "symlink"
    /\ Made(p, "Lstat")
    /\ stderr[p] # ErrInspect

C10_BaseIsLinkPath ==
    \A p \in Runs :
        InspectedLink(p) =>
            /\ Len(rsyncArguments[p]) >= 4
            /\ rsyncArguments[p][4] =
                  <<rsyncBaseFlagFormat>> \o Clean(snapshotsDirectory(p))
                      \o <<Separator>> \o latestSnapshotLinkName
            /\ \A k \in DOMAIN rsyncArguments[p][4] :
                  <<rsyncArguments[p][4][k]>> # latestBefore[p].target
            /\ stderr[p] # ErrNotSymlink

C10_Witness ==
    \E p \in Runs :
        /\ InspectedLink(p)
        /\ latestBefore[p].target \notin dirsBefore[p]
        /\ Made(p, "rsync")
        /\ pc[p] = "Done"

(***************************************************************************)
(* C11: a run calls os.Remove only after its own rsync succeeded; when     *)
(* Latest is missing the removal counts as done and the run can go on;     *)
(* a run that exits on the removal has not called os.Symlink; a run calls  *)
(* os.Symlink only after the removal, and the link a Done run leaves is    *)
(* named Latest and has the bare timestamp as target: one name, without    *)
(* the snapshots directory in front.                                       *)
(***************************************************************************)
C11_Publisher ==
    \A p \in Runs :
        /\ Made(p, "Remove") =>
              /\ Made(p, "rsync")
              /\ timestamp[p] \in Range(completed)
              /\ timestamp[p] \notin failed
        /\ (pc[p] = "Publishing" /\ ~removed[p] /\ latest.kind = "absent") =>
              ENABLED (PublishRemove(p) /\ removed'[p] /\ pc'[p] = "Publishing")
        /\ stderr[p] = ErrRemove =>
              /\ pc[p] = "Aborted"
              /\ ~Made(p, "Symlink")
        /\ Made(p, "Symlink") => (Made(p, "Remove") /\ removed[p])
        /\ (pc[p] = "Done" /\ LatestUntouchedSince(p)) =>
              /\ latest.kind = "symlink"
              /\ latest.target \in dirs
              /\ Len(latest.target) = 1
              /\ latest.target = timestamp[p]
              /\ latest.target # Last(rsyncArguments[p])
              /\ Last(rsyncArguments[p])
                    = Clean(snapshotsDirectory(p)) \o <<Separator>>
                        \o latest.target

C11_Witness ==
    \E p, q \in Runs :
        /\ pc[p] = "Done"
        /\ latestBefore[p].kind = "absent"
        /\ latest = LinkTo(timestamp[p])
        /\ stderr[q] = ErrRemove
        /\ syscalls[q] = <<"MkdirAll", "Lstat", "Mkdir", "rsync", "Remove">>

(***************************************************************************)
(* C12: publishing is two steps.  Latest never goes from one link to       *)
(* another in one step: every replacement passes through a state without   *)
(* Latest, which is left by the removal of a run that is still publishing. *)
(* And a run that has made its removal and finds a Latest that another run *)
(* created in between can only fail in os.Symlink, leaving that link.      *)
(* The witness is such an interleaving of two runs that both began with    *)
(* Latest present.                                                         *)
(***************************************************************************)
C12_RemovalLeavesWindow ==
    /\ latest' # latest => (latest.kind = "absent" \/ latest'.kind = "absent")
    /\ (latest.kind # "absent" /\ latest'.kind = "absent") =>
          \E p \in Runs : /\ pc[p] = "Publishing" /\ pc'[p] = "Publishing"
                          /\ ~removed[p] /\ removed'[p]

C12_LateLinkFails ==
    \A q \in Runs :
        (/\ pc[q] = "Publishing" /\ removed[q]
         /\ latest.kind # "absent"
         /\ pc'[q] # pc[q]) =>
            /\ pc'[q] = "Aborted"
            /\ stderr'[q] = ErrSymlink
            /\ latest' = latest

C12_PublishNotAtomic ==
    [][C12_RemovalLeavesWindow /\ C12_LateLinkFails]_vars

C12_Witness ==
    \E p, q \in Runs :
        /\ p # q
        /\ latestBefore[p].kind = "symlink"
        /\ latestBefore[q] = latestBefore[p]
        /\ pc[p] = "Done"
        /\ latest = LinkTo(timestamp[p])
        /\ pc[q] = "Publishing"
        /\ removed[q]

(***************************************************************************)
(* Where the parts of the argument list of a run are: after the three      *)
(* fixed flags and the base flag, if any, come the exclude flags, then the *)
(* source.                                                                 *)
(***************************************************************************)
IsExcludeFlag(argument) ==
    argument # <<>> /\ argument[1] = rsyncExcludeFlagFormat

ExcludeFlagsAt(p) ==
    {i \in DOMAIN rsyncArguments[p] : IsExcludeFlag(rsyncArguments[p][i])}

\* The run has built its arguments.
Built(p) ==
    \/ pc[p] \in {"Allocating", "Transferring", "Publishing", "Done"}
    \/ pc[p] = "Aborted" /\ Made(p, "Mkdir")

FirstExcludeAt(p) == 3 + Cardinality(BaseFlags(p)) + 1

SourceAt(p) == FirstExcludeAt(p) + Len(commandLine[p].excludes)

(***************************************************************************)
(* C13: the arguments a run has built hold one exclude flag for each       *)
(* -exclude value of the command line, next to one another, in the order   *)
(* of the command line, a value given twice twice, and no other exclude    *)
(* flag.                                                                   *)
(***************************************************************************)
C13_ExcludesInOrder ==
    \A p \in Runs :
        Built(p) =>
            LET excludes == commandLine[p].excludes
            IN  /\ Cardinality(ExcludeFlagsAt(p)) = Len(excludes)
                /\ \A i \in 1..Len(excludes) :
                      rsyncArguments[p][FirstExcludeAt(p) + i - 1]
                          = <<rsyncExcludeFlagFormat>> \o excludes[i]

C13_Witness ==
    \E p \in Runs :
        /\ pc[p] = "Transferring"
        /\ commandLine[p].excludes = <<<<"a">>, <<"a">>>>
        /\ Cardinality(ExcludeFlagsAt(p)) = 2

(***************************************************************************)
(* C14: the source among the arguments of a run ends with a separator: it  *)
(* is the root of the command line, with one separator appended when the   *)
(* root does not end with one and as it is when it does; normalising it    *)
(* once more changes nothing.                                              *)
(***************************************************************************)
C14_SourceEndsWithSeparator ==
    \A p \in Runs :
        Built(p) =>
            LET given == commandLine[p].arguments[1]
                source == rsyncArguments[p][SourceAt(p)]
            IN  /\ source[Len(source)] = Separator
                /\ given[Len(given)] # Separator =>
                      source = given \o <<Separator>>
                /\ given[Len(given)] = Separator => source = given
                /\ root[p] = source
                /\ WithTrailingSlash(source) = source

C14_Witness ==
    \E p \in Runs :
        /\ pc[p] = "Transferring"
        /\ commandLine[p].arguments[1] = <<"d", Separator>>
        /\ rsyncArguments[p][SourceAt(p)] = <<"d", Separator>>

(***************************************************************************)
(* C15: no step removes or renames a snapshot directory, and a step adds   *)
(* at most one; the snapshot directories are the initial ones and one for  *)
(* each run whose os.Mkdir succeeded, so each run adds at most one and the *)
(* directory of a run that aborted afterwards is still there; the          *)
(* snapshots directory itself stays; the only entry that disappears is     *)
(* Latest, in the removal of a run that is publishing.                     *)
(***************************************************************************)
C15_NothingRemovedStep ==
    /\ dirs \subseteq dirs'
    /\ Cardinality(dirs' \ dirs) <= 1
    /\ rootExists => rootExists'
    /\ (latest.kind # "absent" /\ latest'.kind = "absent") =>
          \E p \in Runs : /\ pc[p] = "Publishing"
                          /\ Last(syscalls'[p]) = "Remove"

C15_OneDirectoryPerRun ==
    /\ dirs = initial.dirs \cup {timestamp[p] : p \in {q \in Runs : Allocated(q)}}
    /\ \A p \in Runs :
          (Terminated(p) /\ \A q \in Runs : q > p => pc[q] = "Idle") =>
              /\ dirsBefore[p] \subseteq dirs
              /\ Cardinality(dirs \ dirsBefore[p]) <= 1

C15_SnapshotsOnlyGrow ==
    [][C15_NothingRemovedStep]_vars /\ []C15_OneDirectoryPerRun

C15_Witness ==
    \E p, q \in Runs :
        /\ p < q
        /\ stderr[p] = ErrRsync
        /\ stderr[q] = ErrSymlink
        /\ latestBefore[p].kind = "symlink"
        /\ latest.kind = "absent"
        /\ dirs = initial.dirs \cup {timestamp[p], timestamp[q]}
        /\ Cardinality(dirs) = 3

(***************************************************************************)
(* C16: a run whose os.Mkdir fails, and it does fail when the name exists, *)
(* is Aborted after MkdirAll, Lstat and Mkdir alone, with no destination   *)
(* among its arguments; Latest and the snapshot directories are what they  *)
(* were when the run began.                                                *)
(***************************************************************************)
C16_FailedAllocation ==
    \A p \in Runs :
        /\ (Made(p, "Mkdir") /\ timestamp[p] \in dirsBefore[p]) =>
              stderr[p] = ErrCreateSnapshot
        /\ stderr[p] = ErrCreateSnapshot =>
              /\ pc[p] = "Aborted"
              /\ syscalls[p] = <<"MkdirAll", "Lstat", "Mkdir">>
              /\ Len(rsyncArguments[p]) = SourceAt(p)
              /\ (\A q \in Runs : q > p => pc[q] = "Idle") =>
                    /\ dirs = dirsBefore[p]
                    /\ latest = latestBefore[p]

C16_Witness ==
    \E p, q \in Runs :
        /\ p < q
        /\ pc[p] = "Done"
        /\ timestamp[q] = timestamp[p]
        /\ stderr[q] = ErrCreateSnapshot
        /\ latest = LinkTo(timestamp[p])

(***************************************************************************)
(* C17: the arguments of a run that has allocated are, in this order, the  *)
(* three fixed flags, the base flag with the path of Latest if and only if *)
(* the run found Latest, the exclude flags, the source, and last the path  *)
(* of the snapshot; until os.Mkdir has succeeded the list ends with the    *)
(* source.                                                                 *)
(***************************************************************************)
ExpectedBeforeAllocation(p) ==
    <<<<"-aPh">>, <<"--no-specials">>, <<"--no-devices">>>>
    \o (IF latestBefore[p].kind = "symlink"
        THEN <<<<"--link-dest=">> \o Clean(snapshotsDirectory(p))
                 \o <<Separator, "Latest">>>>
        ELSE <<>>)
    \o [i \in 1..Len(commandLine[p].excludes) |->
          <<"--exclude=">> \o commandLine[p].excludes[i]]
    \o <<IF Last(commandLine[p].arguments[1]) = Separator
         THEN commandLine[p].arguments[1]
         ELSE commandLine[p].arguments[1] \o <<Separator>>>>

C17_ArgumentOrder ==
    \A p \in Runs :
        /\ (Built(p) /\ ~Allocated(p)) =>
              rsyncArguments[p] = ExpectedBeforeAllocation(p)
        /\ Allocated(p) =>
              /\ rsyncArguments[p] =
                    Append(ExpectedBeforeAllocation(p),
                           Clean(snapshotsDirectory(p)) \o <<Separator>>
                               \o timestamp[p])
              /\ timestamp[p] \in dirs

C17_Witness ==
    \E p \in Runs :
        /\ pc[p] = "Transferring"
        /\ latestBefore[p].kind = "symlink"
        /\ Len(commandLine[p].excludes) = 2
        /\ commandLine[p].excludes[1] # commandLine[p].excludes[2]
        /\ Len(rsyncArguments[p]) = 8

(***************************************************************************)
(* C18: a run that exits in publishing is not undone.  When os.Symlink     *)
(* fails, Latest stays absent even if the run began with one; when         *)
(* os.Remove fails, Latest is what it was when the run began; either way   *)
(* the snapshot of the run, whose transfer succeeded, is still there.      *)
(* Each holds until a later run publishes.                                 *)
(***************************************************************************)
C18_NoRecovery ==
    \A p \in Runs :
        /\ stderr[p] = ErrSymlink =>
              /\ pc[p] = "Aborted"
              /\ LatestUntouchedSince(p) => latest.kind = "absent"
        /\ stderr[p] = ErrRemove =>
              /\ pc[p] = "Aborted"
              /\ LatestUntouchedSince(p) => latest = latestBefore[p]
        /\ stderr[p] \in {ErrSymlink, ErrRemove} =>
              /\ timestamp[p] \in dirs
              /\ timestamp[p] \in Range(completed)

C18_Witness ==
    \E p, q \in Runs :
        /\ p < q
        /\ stderr[p] = ErrRemove
        /\ latestBefore[p].kind = "symlink"
        /\ latestBefore[q] = latestBefore[p]
        /\ stderr[q] = ErrSymlink
        /\ latest.kind = "absent"
        /\ {timestamp[p], timestamp[q], latestBefore[p].target} \subseteq dirs

(***************************************************************************)
(* C19: when the snapshots directory starts with no Latest or with a       *)
(* Latest that links to a complete snapshot, then under every interleaving *)
(* of overlapping runs a Latest that is present is a symlink to an         *)
(* existing snapshot directory whose transfer has succeeded: not to one    *)
(* whose rsync is still running or has failed.                             *)
(***************************************************************************)
C19_ConcurrentLatestComplete ==
    (InitialValid /\ latest.kind # "absent") =>
        /\ latest.kind = "symlink"
        /\ latest.target \in dirs
        /\ latest.target \in Range(completed)
        /\ latest.target \notin failed
        /\ \A p \in Runs :
              timestamp[p] = latest.target =>
                  pc[p] \notin {"Allocating", "Transferring"}

C19_Witness ==
    /\ InitialValid
    /\ \E p, q \in Runs :
          /\ p # q
          /\ pc[p] = "Done"
          /\ latest = LinkTo(timestamp[p])
          /\ pc[q] = "Transferring"
          /\ Made(q, "Lstat")
          /\ latestBefore[q].kind = "absent"
          /\ Cardinality(BaseFlags(q)) = 1

=============================================================================
